---- MODULE Spec2Model ----
(***************************************************************************)
(* Booking-admission subsystem of the room-booking backend.                *)
(*                                                                         *)
(* The ledger is the bookings collection, kept as a sequence in insertion  *)
(* order (documents are only ever appended by this subsystem).  Request    *)
(* handlers run concurrently; every `await` of the TypeScript code is a    *)
(* point where another handler may run, so each action below is the code   *)
(* between two awaits together with the store operation that was awaited.  *)
(*                                                                         *)
(* Two deployments exist in the source: the service that calls             *)
(* BookingRepository.createAtomic (conditional upsert, "atomic") and the   *)
(* service that calls BookingRepository.createBooking (transaction,        *)
(* "transaction").  `strategy` is fixed at start-up.                        *)
(***************************************************************************)
EXTENDS Integers, Sequences, FiniteSets, TLC

(* ------------------------------ bounds -------------------------------- *)
NumProcs == 2
NumRooms == 2
NumUsers == 2
MaxTime  == 2
MaxBookings == 2

Procs   == 1..NumProcs
Rooms   == 1..NumRooms            \* ids of the rooms that exist
RoomIds == 1..(NumRooms + 1)      \* ids a request may carry; the last one names no room
Users   == 1..NumUsers
Times   == 0..MaxTime

VARIABLES
  strategy,   \* "atomic" | "transaction": which repository method the service calls
  ledger,     \* Seq of booking documents
  cache,      \* set of keys present in the redis cache
  pc,         \* pc[p]: position of handler p inside BookingService.createBooking
  req,        \* req[p]: arguments of the running call
  result,     \* result[p]: outcome of the call once pc[p] = "done"
  start,      \* start[p]: Len(ledger) when the call was issued
  seen,       \* seen[p]: Len(ledger) when the repository read the collection
  solo,       \* solo[p]: no other call was in flight at any time during this call
  prior,      \* prior[p]: the response to the same request when it is being re-submitted
  logged      \* logged[p]: invalidateRoomCache caught an error and logged it in this call

vars == <<strategy, ledger, cache, pc, req, result, start, seen, solo, prior, logged>>

(* ----------------------------- documents ------------------------------ *)
NoReq    == [userId |-> 0, roomId |-> 0, startDate |-> 0, endDate |-> 0]
NoResult == [status |-> 0, message |-> "", booking |-> 0, wrote |-> 0]

NewBooking(userId, roomId, startDate, endDate) ==
  [userId |-> userId, roomId |-> roomId, startDate |-> startDate,
   endDate |-> endDate, status |-> "CONFIRMED", version |-> 1]

(* ------------------------------ cache keys ---------------------------- *)
Undefined == -1
Limits  == {Undefined, 1}
Offsets == {Undefined}

KeyAll == [prefix |-> "rooms:all", rest |-> <<>>]
ListKey(limit, offset) ==
  IF limit /= Undefined \/ offset /= Undefined
    THEN [prefix |-> "rooms:all",
          rest   |-> <<limit, IF offset = Undefined THEN 0 ELSE offset>>]
    ELSE KeyAll
RoomKey(id) == [prefix |-> "room:", rest |-> <<id>>]

(* cacheHelper.clear('rooms:all*'): redis KEYS glob, every key that starts *)
(* with the text before the star.                                          *)
MatchesRoomsAllPattern(key) == key.prefix = "rooms:all"

(* --------------------------- store queries ---------------------------- *)
(* The overlap clause with closed bounds ($lte / $gte). *)
OverlapQueryInclusive(b, startDate, endDate) ==
  b.startDate <= endDate /\ b.endDate >= startDate

(* The clause { startDate: { $lt: endDate }, endDate: { $gt: startDate } } *)
(* evaluated on one document.                                              *)
OverlapQuery(b, startDate, endDate) ==
  b.startDate < endDate /\ b.endDate > startDate

(* The overlap query without its roomId condition. *)
findOverlappingAnyRoom(L, roomId, startDate, endDate) ==
  {i \in 1..Len(L) : /\ L[i].status = "CONFIRMED"
                     /\ OverlapQuery(L[i], startDate, endDate)}

(* Booking.find({ roomId, status: 'CONFIRMED', $or: [clause] }): the       *)
(* positions of the matching documents.                                    *)
findOverlapping(L, roomId, startDate, endDate) ==
  {i \in 1..Len(L) : /\ L[i].roomId = roomId
                     /\ L[i].status = "CONFIRMED"
                     /\ OverlapQuery(L[i], startDate, endDate)}

(* The filter of createAtomic's findOneAndUpdate: a document matches when  *)
(* it is a CONFIRMED booking of the room for which the $nor clause holds,  *)
(* i.e. which does not overlap the request.                                *)
NorFilter(L, roomId, startDate, endDate) ==
  {i \in 1..Len(L) : /\ L[i].roomId = roomId
                     /\ L[i].status = "CONFIRMED"
                     /\ ~ OverlapQuery(L[i], startDate, endDate)}

(* A collection without the unique index: no insert is ever rejected. *)
DuplicateKeyNoIndex(L, roomId, startDate, endDate) == FALSE

(* bookingSchema.index({roomId, startDate, endDate}, {unique: true}):      *)
(* would inserting this triple raise E11000?                               *)
DuplicateKey(L, roomId, startDate, endDate) ==
  \E i \in 1..Len(L) : /\ L[i].roomId = roomId
                       /\ L[i].startDate = startDate
                       /\ L[i].endDate = endDate

(* A lookup that answers for every id. *)
findByIdAny(id) == id \in RoomIds

(* roomRepository.findById(id) returns a document iff the room exists.     *)
findById(id) == id \in Rooms

(* The date guard with a strict comparison. *)
InvalidDatesStrict(startDate, endDate) == startDate > endDate

(* The guard `startDate >= endDate` at the top of createBooking.           *)
InvalidDates(startDate, endDate) == startDate >= endDate

(* RoomService.checkAvailability: 400 for start >= end, 404 for an unknown *)
(* room, otherwise is_available iff the overlap query finds nothing.       *)
checkAvailability(L, roomId, startDate, endDate) ==
  IF startDate >= endDate THEN [status |-> 400, is_available |-> FALSE]
  ELSE IF ~ findById(roomId) THEN [status |-> 404, is_available |-> FALSE]
  ELSE [status |-> 200,
        is_available |-> findOverlapping(L, roomId, startDate, endDate) = {}]

(* --------------------------- thrown errors ---------------------------- *)
ValidationError == [status |-> 400, message |-> "startDate must be before endDate",
                    booking |-> 0, wrote |-> 0]
RoomNotFound    == [status |-> 404, message |-> "Room not found",
                    booking |-> 0, wrote |-> 0]
Conflict        == [status |-> 409, message |-> "Room already booked for selected dates",
                    booking |-> 0, wrote |-> 0]
(* an error without statusCode, rendered by errorHandler as 500 *)
ServerError     == [status |-> 500, message |-> "Internal server error",
                    booking |-> 0, wrote |-> 0]
Created(i, w)   == [status |-> 201, message |-> "", booking |-> i, wrote |-> w]

(* ------------------------------- Init --------------------------------- *)
Init ==
  /\ strategy \in {"atomic", "transaction"}
  /\ ledger = <<>>
  /\ cache = {}
  /\ pc = [p \in Procs |-> "idle"]
  /\ req = [p \in Procs |-> NoReq]
  /\ result = [p \in Procs |-> NoResult]
  /\ start = [p \in Procs |-> 0]
  /\ seen = [p \in Procs |-> 0]
  /\ solo = [p \in Procs |-> TRUE]
  /\ prior = [p \in Procs |-> NoResult]
  /\ logged = [p \in Procs |-> FALSE]

(* ------------------- BookingService.createBooking --------------------- *)
(* Handlers that are working on a request.  MaxBookings bounds the work    *)
(* of a run: the bookings stored plus the requests being handled.          *)
Busy == {q \in Procs : pc[q] /= "idle"}


(* createBooking in the order its comment lists: the room first, then the  *)
(* dates.                                                                  *)
CallRoomFirst(p) ==
  /\ pc[p] = "idle"
  /\ Len(ledger) + Cardinality(Busy) < MaxBookings
  /\ \E u \in Users, r \in RoomIds, s \in Times, e \in Times :
       /\ req' = [req EXCEPT ![p] = [userId |-> u, roomId |-> r,
                                     startDate |-> s, endDate |-> e]]
       /\ IF ~ findById(r)
            THEN /\ pc' = [pc EXCEPT ![p] = "done"]
                 /\ result' = [result EXCEPT ![p] = RoomNotFound]
            ELSE IF InvalidDates(s, e)
              THEN /\ pc' = [pc EXCEPT ![p] = "done"]
                   /\ result' = [result EXCEPT ![p] = ValidationError]
              ELSE /\ pc' = [pc EXCEPT ![p] = "verify"]
                   /\ result' = [result EXCEPT ![p] = NoResult]
  /\ start' = [start EXCEPT ![p] = Len(ledger)]
  /\ seen' = [seen EXCEPT ![p] = Len(ledger)]
  /\ solo' = [q \in Procs |-> IF q = p THEN \A o \in Procs \ {p} : pc[o] = "idle"
                              ELSE IF pc[q] = "idle" THEN solo[q] ELSE FALSE]
  /\ UNCHANGED <<strategy, ledger, cache, prior, logged>>

(* Entry of createBooking up to its first await: the date guard throws     *)
(* 400 synchronously, otherwise roomRepository.findById is awaited.        *)
Call(p) ==
  /\ pc[p] = "idle"
  /\ Len(ledger) + Cardinality(Busy) < MaxBookings
  /\ \E u \in Users, r \in RoomIds, s \in Times, e \in Times :
       /\ req' = [req EXCEPT ![p] = [userId |-> u, roomId |-> r,
                                     startDate |-> s, endDate |-> e]]
       /\ IF InvalidDates(s, e)
            THEN /\ pc' = [pc EXCEPT ![p] = "done"]
                 /\ result' = [result EXCEPT ![p] = ValidationError]
            ELSE /\ pc' = [pc EXCEPT ![p] = "verify"]
                 /\ result' = [result EXCEPT ![p] = NoResult]
  /\ start' = [start EXCEPT ![p] = Len(ledger)]
  /\ seen' = [seen EXCEPT ![p] = Len(ledger)]
  /\ solo' = [q \in Procs |-> IF q = p THEN \A o \in Procs \ {p} : pc[o] = "idle"
                              ELSE IF pc[q] = "idle" THEN solo[q] ELSE FALSE]
  /\ UNCHANGED <<strategy, ledger, cache, prior, logged>>

(* findById resolved: 404 when there is no room, otherwise the repository  *)
(* method of the deployed service is entered and its store call awaited.   *)
VerifyRoom(p) ==
  /\ pc[p] = "verify"
  /\ IF ~ findById(req[p].roomId)
       THEN /\ pc' = [pc EXCEPT ![p] = "done"]
            /\ result' = [result EXCEPT ![p] = RoomNotFound]
       ELSE /\ pc' = [pc EXCEPT ![p] =
                        IF strategy = "atomic" THEN "createAtomic" ELSE "txFind"]
            /\ UNCHANGED result
  /\ UNCHANGED <<strategy, ledger, cache, req, start, seen, solo, prior, logged>>

(* The upsert written with $set: a matching document takes the fields of   *)
(* the request.                                                            *)
CreateAtomicSet(p) ==
  /\ pc[p] = "createAtomic"
  /\ LET r == req[p]
         M == NorFilter(ledger, r.roomId, r.startDate, r.endDate)
     IN  /\ seen' = [seen EXCEPT ![p] = Len(ledger)]
         /\ IF M /= {}
              THEN /\ \E i \in M :
                        /\ result' = [result EXCEPT ![p] = Created(i, 0)]
                        /\ ledger' = [ledger EXCEPT ![i] =
                             NewBooking(r.userId, r.roomId, r.startDate, r.endDate)]
                   /\ pc' = [pc EXCEPT ![p] = "invList"]
              ELSE IF DuplicateKey(ledger, r.roomId, r.startDate, r.endDate)
                THEN /\ result' = [result EXCEPT ![p] = Conflict]
                     /\ pc' = [pc EXCEPT ![p] = "done"]
                     /\ UNCHANGED ledger
                ELSE /\ ledger' = Append(ledger, NewBooking(r.userId, r.roomId,
                                                            r.startDate, r.endDate))
                     /\ result' = [result EXCEPT ![p] =
                                     Created(Len(ledger) + 1, Len(ledger) + 1)]
                     /\ pc' = [pc EXCEPT ![p] = "invList"]
  /\ UNCHANGED <<strategy, cache, req, start, solo, prior, logged>>

(* BookingRepository.createAtomic: the findOneAndUpdate with upsert, run   *)
(* by the store as one operation.  A matching document is returned as it   *)
(* is ($setOnInsert changes nothing on a match; which of several matches   *)
(* is returned is up to the store).  With no match the store inserts the   *)
(* new document, unless the unique index rejects it: the catch block       *)
(* turns that error into null, which the service reports as 409.           *)
CreateAtomic(p) ==
  /\ pc[p] = "createAtomic"
  /\ LET r == req[p]
         M == NorFilter(ledger, r.roomId, r.startDate, r.endDate)
     IN  /\ seen' = [seen EXCEPT ![p] = Len(ledger)]
         /\ IF M /= {}
              THEN /\ \E i \in M : result' = [result EXCEPT ![p] = Created(i, 0)]
                   /\ pc' = [pc EXCEPT ![p] = "invList"]
                   /\ UNCHANGED ledger
              ELSE IF DuplicateKey(ledger, r.roomId, r.startDate, r.endDate)
                THEN /\ result' = [result EXCEPT ![p] = Conflict]
                     /\ pc' = [pc EXCEPT ![p] = "done"]
                     /\ UNCHANGED ledger
                ELSE /\ ledger' = Append(ledger, NewBooking(r.userId, r.roomId,
                                                            r.startDate, r.endDate))
                     /\ result' = [result EXCEPT ![p] =
                                     Created(Len(ledger) + 1, Len(ledger) + 1)]
                     /\ pc' = [pc EXCEPT ![p] = "invList"]
  /\ UNCHANGED <<strategy, cache, req, start, solo, prior, logged>>

(* The find after which the service invalidates the cache before it looks  *)
(* at what the repository returned.                                        *)
TxFindInvalidates(p) ==
  /\ pc[p] = "txFind"
  /\ seen' = [seen EXCEPT ![p] = Len(ledger)]
  /\ LET r == req[p] IN
       IF findOverlapping(ledger, r.roomId, r.startDate, r.endDate) /= {}
         THEN /\ pc' = [pc EXCEPT ![p] = "invList"]
              /\ result' = [result EXCEPT ![p] = Conflict]
         ELSE /\ pc' = [pc EXCEPT ![p] = "txCreate"]
              /\ UNCHANGED result
  /\ UNCHANGED <<strategy, ledger, cache, req, start, solo, prior, logged>>

(* BookingRepository.createBooking, first store call of the transaction:   *)
(* Booking.find(...).session(session) reads the committed collection.      *)
(* A non-empty answer makes the callback return null (409).                *)
TxFind(p) ==
  /\ pc[p] = "txFind"
  /\ seen' = [seen EXCEPT ![p] = Len(ledger)]
  /\ LET r == req[p] IN
       IF findOverlapping(ledger, r.roomId, r.startDate, r.endDate) /= {}
         THEN /\ pc' = [pc EXCEPT ![p] = "done"]
              /\ result' = [result EXCEPT ![p] = Conflict]
         ELSE /\ pc' = [pc EXCEPT ![p] = "txCreate"]
              /\ UNCHANGED result
  /\ UNCHANGED <<strategy, ledger, cache, req, start, solo, prior, logged>>

(* Second store call and commit: Booking.create([...], { session }).       *)
(* The transaction has snapshot isolation: documents other transactions    *)
(* committed after the find are not re-read, and a commit is refused only  *)
(* for a write-write conflict, which for an insert is a clash on the       *)
(* unique index.  A clash with a document of the snapshot is a             *)
(* duplicate-key error, which createBooking re-throws (no statusCode, so   *)
(* the caller sees 500).  A clash with a document committed after the      *)
(* snapshot is a transient write conflict: session.withTransaction runs    *)
(* the callback again.                                                     *)
TxCreate(p) ==
  /\ pc[p] = "txCreate"
  /\ LET r == req[p] IN
       IF DuplicateKey(ledger, r.roomId, r.startDate, r.endDate)
         THEN /\ IF DuplicateKey(SubSeq(ledger, 1, seen[p]),
                                 r.roomId, r.startDate, r.endDate)
                   THEN /\ pc' = [pc EXCEPT ![p] = "done"]
                        /\ result' = [result EXCEPT ![p] = ServerError]
                   ELSE /\ pc' = [pc EXCEPT ![p] = "txFind"]
                        /\ UNCHANGED result
              /\ UNCHANGED ledger
         ELSE /\ ledger' = Append(ledger, NewBooking(r.userId, r.roomId,
                                                     r.startDate, r.endDate))
              /\ result' = [result EXCEPT ![p] =
                              Created(Len(ledger) + 1, Len(ledger) + 1)]
              /\ pc' = [pc EXCEPT ![p] = "invList"]
  /\ UNCHANGED <<strategy, cache, req, start, seen, solo, prior, logged>>

(* invalidateRoomCache, first cache call: del('rooms:all') in the service  *)
(* built on createAtomic, clear('rooms:all*') in the transactional one.    *)
InvalidateList(p) ==
  /\ pc[p] = "invList"
  /\ cache' = IF strategy = "atomic"
                THEN cache \ {KeyAll}
                ELSE {k \in cache : ~ MatchesRoomsAllPattern(k)}
  /\ pc' = [pc EXCEPT ![p] = "invRoom"]
  /\ UNCHANGED <<strategy, ledger, req, result, start, seen, solo, prior, logged>>

(* invalidateRoomCache, second cache call: del(`room:${roomId}`); then the *)
(* booking is returned to the caller.                                      *)
InvalidateRoom(p) ==
  /\ pc[p] = "invRoom"
  /\ cache' = cache \ {RoomKey(req[p].roomId)}
  /\ pc' = [pc EXCEPT ![p] = "done"]
  /\ UNCHANGED <<strategy, ledger, req, result, start, seen, solo, prior, logged>>

(* The route handler has answered; the worker is free for the next request *)
Return(p) ==
  /\ pc[p] = "done"
  /\ pc' = [pc EXCEPT ![p] = "idle"]
  /\ req' = [req EXCEPT ![p] = NoReq]
  /\ result' = [result EXCEPT ![p] = NoResult]
  /\ start' = [start EXCEPT ![p] = 0]
  /\ seen' = [seen EXCEPT ![p] = 0]
  /\ solo' = [solo EXCEPT ![p] = TRUE]
  /\ prior' = [prior EXCEPT ![p] = NoResult]
  /\ logged' = [logged EXCEPT ![p] = FALSE]
  /\ UNCHANGED <<strategy, ledger, cache>>

(* ----------------------------- RoomService ---------------------------- *)
(* getAllRooms on a cache miss stores the list under its key.              *)
GetAllRooms(limit, offset) ==
  /\ ListKey(limit, offset) \notin cache
  /\ cache' = cache \cup {ListKey(limit, offset)}
  /\ UNCHANGED <<strategy, ledger, pc, req, result, start, seen, solo, prior, logged>>

(* getRoomById on a cache miss stores an existing room under 'room:<id>'.  *)
GetRoomById(id) ==
  /\ findById(id)
  /\ RoomKey(id) \notin cache
  /\ cache' = cache \cup {RoomKey(id)}
  /\ UNCHANGED <<strategy, ledger, pc, req, result, start, seen, solo, prior, logged>>

(* The admission subsystem alone: every handler runs createBooking.        *)
Next ==
  \/ \E p \in Procs : Call(p)
  \/ \E p \in Procs : VerifyRoom(p)
  \/ \E p \in Procs : CreateAtomic(p)
  \/ \E p \in Procs : TxFind(p)
  \/ \E p \in Procs : TxCreate(p)
  \/ \E p \in Procs : InvalidateList(p)
  \/ \E p \in Procs : InvalidateRoom(p)
  \/ \E p \in Procs : Return(p)

Spec == Init /\ [][Next]_vars

(* The admission subsystem together with the room reads that fill the      *)
(* cache it invalidates.                                                   *)
NextCache ==
  \/ Next
  \/ \E l \in Limits, o \in Offsets : GetAllRooms(l, o)
  \/ \E id \in RoomIds : GetRoomById(id)

SpecCache == Init /\ [][NextCache]_vars

(* --------------------------- re-submission ---------------------------- *)
(* The client that has its response posts the same body once more: the     *)
(* route handler enters createBooking again with the same arguments, after *)
(* the first call has returned.                                            *)
Resubmit(p) ==
  /\ pc[p] = "done"
  /\ prior[p] = NoResult
  /\ Len(ledger) < MaxBookings
  /\ prior' = [prior EXCEPT ![p] = result[p]]
  /\ IF InvalidDates(req[p].startDate, req[p].endDate)
       THEN /\ pc' = [pc EXCEPT ![p] = "done"]
            /\ result' = [result EXCEPT ![p] = ValidationError]
       ELSE /\ pc' = [pc EXCEPT ![p] = "verify"]
            /\ result' = [result EXCEPT ![p] = NoResult]
  /\ start' = [start EXCEPT ![p] = Len(ledger)]
  /\ seen' = [seen EXCEPT ![p] = Len(ledger)]
  /\ solo' = [q \in Procs |-> IF q = p THEN \A o \in Procs \ {p} : pc[o] = "idle"
                              ELSE IF pc[q] = "idle" THEN solo[q] ELSE FALSE]
  /\ logged' = [logged EXCEPT ![p] = FALSE]
  /\ UNCHANGED <<strategy, ledger, cache, req>>

NextRetry ==
  \/ Next
  \/ \E p \in Procs : Resubmit(p)

SpecRetry == Init /\ [][NextRetry]_vars

(* ---------------------- store and cache failures ---------------------- *)
(* roomRepository.findById rejects (store unreachable, timeout): the error *)
(* has no statusCode and leaves createBooking as it is.                    *)
VerifyRoomFail(p) ==
  /\ pc[p] = "verify"
  /\ pc' = [pc EXCEPT ![p] = "done"]
  /\ result' = [result EXCEPT ![p] = ServerError]
  /\ UNCHANGED <<strategy, ledger, cache, req, start, seen, solo, prior, logged>>

(* createAtomic whose findOneAndUpdate rejects for a reason other than the *)
(* unique index (store unreachable, timeout, write error).  The catch      *)
(* block has no test on the error: it returns null, and the service        *)
(* throws 409.  When the reply is lost after the store ran the operation,  *)
(* an upsert that had no match and no duplicate has been applied.          *)
CreateAtomicFail(p) ==
  /\ pc[p] = "createAtomic"
  /\ LET r == req[p]
         inserts == /\ NorFilter(ledger, r.roomId, r.startDate, r.endDate) = {}
                    /\ ~ DuplicateKey(ledger, r.roomId, r.startDate, r.endDate)
     IN  /\ seen' = [seen EXCEPT ![p] = Len(ledger)]
         /\ \/ /\ UNCHANGED ledger
               /\ result' = [result EXCEPT ![p] = Conflict]
            \/ /\ inserts
               /\ ledger' = Append(ledger, NewBooking(r.userId, r.roomId,
                                                      r.startDate, r.endDate))
               /\ result' = [result EXCEPT ![p] =
                               [Conflict EXCEPT !.wrote = Len(ledger) + 1]]
  /\ pc' = [pc EXCEPT ![p] = "done"]
  /\ UNCHANGED <<strategy, cache, req, start, solo, prior, logged>>

(* The transactional createBooking whose startSession, find or create      *)
(* rejects with an error that is not retried: the transaction is aborted,  *)
(* the catch block re-throws and the caller sees 500.                      *)
TxAbort(p) ==
  /\ pc[p] \in {"txFind", "txCreate"}
  /\ pc' = [pc EXCEPT ![p] = "done"]
  /\ result' = [result EXCEPT ![p] = ServerError]
  /\ UNCHANGED <<strategy, ledger, cache, req, start, seen, solo, prior, logged>>

(* The commit whose outcome stays unknown until withTransaction gives up:  *)
(* the store has applied the insert, the driver throws, createBooking      *)
(* re-throws and the caller sees 500.                                      *)
TxCommitUnknown(p) ==
  /\ pc[p] = "txCreate"
  /\ LET r == req[p] IN
       /\ ~ DuplicateKey(ledger, r.roomId, r.startDate, r.endDate)
       /\ ledger' = Append(ledger, NewBooking(r.userId, r.roomId,
                                              r.startDate, r.endDate))
       /\ result' = [result EXCEPT ![p] =
                       [ServerError EXCEPT !.wrote = Len(ledger) + 1]]
  /\ pc' = [pc EXCEPT ![p] = "done"]
  /\ UNCHANGED <<strategy, cache, req, start, seen, solo, prior, logged>>

(* The first cache call with the error thrown on to createBooking instead  *)
(* of being caught.                                                        *)
InvalidateListFailThrows(p) ==
  /\ pc[p] = "invList"
  /\ cache' \in {cache, IF strategy = "atomic"
                          THEN cache \ {KeyAll}
                          ELSE {k \in cache : ~ MatchesRoomsAllPattern(k)}}
  /\ logged' = [logged EXCEPT ![p] = TRUE]
  /\ pc' = [pc EXCEPT ![p] = "done"]
  /\ result' = [result EXCEPT ![p] = ServerError]
  /\ UNCHANGED <<strategy, ledger, req, start, seen, solo, prior>>

(* invalidateRoomCache whose first cache call throws (cacheHelper.del and  *)
(* cacheHelper.clear log and re-throw what redis throws): the catch block  *)
(* logs, the second call is skipped and createBooking returns the booking. *)
(* Redis may have run the command before the connection failed.            *)
InvalidateListFail(p) ==
  /\ pc[p] = "invList"
  /\ cache' \in {cache, IF strategy = "atomic"
                          THEN cache \ {KeyAll}
                          ELSE {k \in cache : ~ MatchesRoomsAllPattern(k)}}
  /\ logged' = [logged EXCEPT ![p] = TRUE]
  /\ pc' = [pc EXCEPT ![p] = "done"]
  /\ UNCHANGED <<strategy, ledger, req, result, start, seen, solo, prior>>

(* invalidateRoomCache whose second cache call throws: caught and logged.  *)
InvalidateRoomFail(p) ==
  /\ pc[p] = "invRoom"
  /\ cache' \in {cache, cache \ {RoomKey(req[p].roomId)}}
  /\ logged' = [logged EXCEPT ![p] = TRUE]
  /\ pc' = [pc EXCEPT ![p] = "done"]
  /\ UNCHANGED <<strategy, ledger, req, result, start, seen, solo, prior>>

(* Admission and room reads with a store and a cache that can fail.        *)
NextFault ==
  \/ NextCache
  \/ \E p \in Procs : VerifyRoomFail(p)
  \/ \E p \in Procs : CreateAtomicFail(p)
  \/ \E p \in Procs : TxAbort(p)
  \/ \E p \in Procs : TxCommitUnknown(p)
  \/ \E p \in Procs : InvalidateListFail(p)
  \/ \E p \in Procs : InvalidateRoomFail(p)

SpecFault == Init /\ [][NextFault]_vars

(* Admissions and repeated admissions on a store that can fail.            *)
NextRetryFault ==
  \/ NextRetry
  \/ \E p \in Procs : VerifyRoomFail(p)
  \/ \E p \in Procs : CreateAtomicFail(p)
  \/ \E p \in Procs : TxAbort(p)
  \/ \E p \in Procs : TxCommitUnknown(p)

SpecRetryFault == Init /\ [][NextRetryFault]_vars

(* ------------------------ availability checks ------------------------ *)
(* What an availability check leaves in result[p]: the status, the answer  *)
(* and the service that gave it.                                           *)
AvailabilityResult(via, status, message, is_available) ==
  [status |-> status, message |-> message, booking |-> 0, wrote |-> 0,
   via |-> via, is_available |-> is_available]

(* RoomService.checkAvailability up to its first await: the date guard     *)
(* throws 400, otherwise roomRepository.findById is awaited.               *)
RoomAvailabilityCall(p) ==
  /\ pc[p] = "idle"
  /\ Len(ledger) + Cardinality(Busy) < MaxBookings
  /\ \E r \in RoomIds, s \in Times, e \in Times :
       /\ req' = [req EXCEPT ![p] = [userId |-> 0, roomId |-> r,
                                     startDate |-> s, endDate |-> e]]
       /\ IF s >= e
            THEN /\ pc' = [pc EXCEPT ![p] = "done"]
                 /\ result' = [result EXCEPT ![p] =
                      AvailabilityResult("RoomService", 400,
                                         "Start date must be before end date", FALSE)]
            ELSE /\ pc' = [pc EXCEPT ![p] = "rsVerify"]
                 /\ result' = [result EXCEPT ![p] = NoResult]
  /\ start' = [start EXCEPT ![p] = Len(ledger)]
  /\ seen' = [seen EXCEPT ![p] = Len(ledger)]
  /\ UNCHANGED <<strategy, ledger, cache, solo, prior, logged>>

(* findById resolved: 404 for an unknown room, otherwise                   *)
(* bookingRepository.findOverlapping is awaited.                           *)
RoomAvailabilityVerify(p) ==
  /\ pc[p] = "rsVerify"
  /\ IF ~ findById(req[p].roomId)
       THEN /\ pc' = [pc EXCEPT ![p] = "done"]
            /\ result' = [result EXCEPT ![p] =
                 AvailabilityResult("RoomService", 404, "Room not found", FALSE)]
       ELSE /\ pc' = [pc EXCEPT ![p] = "rsFind"]
            /\ UNCHANGED result
  /\ UNCHANGED <<strategy, ledger, cache, req, start, seen, solo, prior, logged>>

(* The answer computed on the collection as it was when the check began.   *)
RoomAvailabilityFindStale(p) ==
  /\ pc[p] = "rsFind"
  /\ seen' = [seen EXCEPT ![p] = Len(ledger)]
  /\ result' = [result EXCEPT ![p] =
       AvailabilityResult("RoomService", 200, "",
         findOverlapping(SubSeq(ledger, 1, start[p]), req[p].roomId,
                         req[p].startDate, req[p].endDate) = {})]
  /\ pc' = [pc EXCEPT ![p] = "done"]
  /\ UNCHANGED <<strategy, ledger, cache, req, start, solo, prior, logged>>

(* findOverlapping resolved: the answer is whether it found nothing.       *)
RoomAvailabilityFind(p) ==
  /\ pc[p] = "rsFind"
  /\ seen' = [seen EXCEPT ![p] = Len(ledger)]
  /\ result' = [result EXCEPT ![p] =
       AvailabilityResult("RoomService", 200, "",
         findOverlapping(ledger, req[p].roomId,
                         req[p].startDate, req[p].endDate) = {})]
  /\ pc' = [pc EXCEPT ![p] = "done"]
  /\ UNCHANGED <<strategy, ledger, cache, req, start, solo, prior, logged>>

(* BookingService.checkAvailability up to its await: the date guard throws *)
(* 400, otherwise bookingRepository.findOverlapping is awaited.  There is  *)
(* no room lookup in this method.                                          *)
BookingAvailabilityCall(p) ==
  /\ pc[p] = "idle"
  /\ Len(ledger) + Cardinality(Busy) < MaxBookings
  /\ \E r \in RoomIds, s \in Times, e \in Times :
       /\ req' = [req EXCEPT ![p] = [userId |-> 0, roomId |-> r,
                                     startDate |-> s, endDate |-> e]]
       /\ IF s >= e
            THEN /\ pc' = [pc EXCEPT ![p] = "done"]
                 /\ result' = [result EXCEPT ![p] =
                      AvailabilityResult("BookingService", 400,
                                         "startDate must be before endDate", FALSE)]
            ELSE /\ pc' = [pc EXCEPT ![p] = "bsFind"]
                 /\ result' = [result EXCEPT ![p] = NoResult]
  /\ start' = [start EXCEPT ![p] = Len(ledger)]
  /\ seen' = [seen EXCEPT ![p] = Len(ledger)]
  /\ UNCHANGED <<strategy, ledger, cache, solo, prior, logged>>

(* findOverlapping resolved: the method returns overlapping.length === 0.  *)
BookingAvailabilityFind(p) ==
  /\ pc[p] = "bsFind"
  /\ seen' = [seen EXCEPT ![p] = Len(ledger)]
  /\ result' = [result EXCEPT ![p] =
       AvailabilityResult("BookingService", 200, "",
         findOverlapping(ledger, req[p].roomId,
                         req[p].startDate, req[p].endDate) = {})]
  /\ pc' = [pc EXCEPT ![p] = "done"]
  /\ UNCHANGED <<strategy, ledger, cache, req, start, solo, prior, logged>>

(* Admissions, availability checks and the reads that cache one room.      *)
NextAvailability ==
  \/ Next
  \/ \E p \in Procs : RoomAvailabilityCall(p)
  \/ \E p \in Procs : RoomAvailabilityVerify(p)
  \/ \E p \in Procs : RoomAvailabilityFind(p)
  \/ \E p \in Procs : BookingAvailabilityCall(p)
  \/ \E p \in Procs : BookingAvailabilityFind(p)
  \/ \E id \in RoomIds : GetRoomById(id)

SpecAvailability == Init /\ [][NextAvailability]_vars

(* ------------------- a collection with a CANCELLED record ------------- *)
(* A document whose status is the other value of the schema's enum.  No    *)
(* code of the backend writes it; the collection may hold it all the same. *)
CancelledBooking(userId, roomId, startDate, endDate) ==
  [userId |-> userId, roomId |-> roomId, startDate |-> startDate,
   endDate |-> endDate, status |-> "CANCELLED", version |-> 1]

(* The service starts on a collection that holds one CANCELLED booking.    *)
InitCancelled ==
  /\ strategy \in {"atomic", "transaction"}
  /\ ledger \in {<<CancelledBooking(u, r, s, e)>> :
                   u \in Users, r \in Rooms,
                   s \in Times \ {MaxTime}, e \in {MaxTime - 1, MaxTime}}
  /\ ledger[1].startDate < ledger[1].endDate
  /\ cache = {}
  /\ pc = [p \in Procs |-> "idle"]
  /\ req = [p \in Procs |-> NoReq]
  /\ result = [p \in Procs |-> NoResult]
  /\ start = [p \in Procs |-> 0]
  /\ seen = [p \in Procs |-> 0]
  /\ solo = [p \in Procs |-> TRUE]
  /\ prior = [p \in Procs |-> NoResult]
  /\ logged = [p \in Procs |-> FALSE]

SpecCancelled == InitCancelled /\ [][Next]_vars

(* The session of the transactional createBooking is open from             *)
(* mongoose.startSession() until session.endSession() in the finally       *)
(* block, i.e. while the transaction callback runs.                        *)
SessionOpen(p) == strategy = "transaction" /\ pc[p] \in {"txFind", "txCreate"}

(* ------------------------- POST /api/bookings ------------------------- *)
(* The Authorization header of a request: absent, a Bearer token that      *)
(* authService.verifyAccessToken rejects, or one it decodes to a userId.   *)
Headers ==
  {[kind |-> "none", userId |-> 0]}
    \cup {[kind |-> k, userId |-> u] : k \in {"invalid", "valid"}, u \in Users}

(* A middleware that lets every request through. *)
authenticateAny(header) == TRUE

(* authenticate: next() is called iff the header is there, has the Bearer  *)
(* form and verifyAccessToken does not throw; otherwise 401 is sent.       *)
authenticate(header) == header.kind = "valid"

Unauthorized(header) ==
  [status |-> 401,
   message |-> IF header.kind = "none" THEN "Authorization header required"
               ELSE "Invalid or expired token",
   booking |-> 0, wrote |-> 0]
TooManyRequests ==
  [status |-> 429,
   message |-> "Too many booking requests, please try again after 15 minutes",
   booking |-> 0, wrote |-> 0]
BodyValidationFailed ==
  [status |-> 400, message |-> "Request body validation failed",
   booking |-> 0, wrote |-> 0]

(* The route up to the first await of createBooking: authenticate, then    *)
(* bookingLimiter (whether the window of the address is used up is not     *)
(* modelled: either answer), then validateBody(createBookingSchema), then  *)
(* the handler, which calls createBooking with req.user.userId.            *)
Post(p) ==
  /\ pc[p] = "idle"
  /\ Len(ledger) + Cardinality(Busy) < MaxBookings
  /\ \E h \in Headers, r \in RoomIds, s \in Times, e \in Times, limited \in BOOLEAN :
       /\ req' = [req EXCEPT ![p] =
                    [userId |-> IF authenticate(h) THEN h.userId ELSE 0,
                     roomId |-> r, startDate |-> s, endDate |-> e, header |-> h]]
       /\ IF ~ authenticate(h)
            THEN /\ pc' = [pc EXCEPT ![p] = "done"]
                 /\ result' = [result EXCEPT ![p] = Unauthorized(h)]
            ELSE IF limited
              THEN /\ pc' = [pc EXCEPT ![p] = "done"]
                   /\ result' = [result EXCEPT ![p] = TooManyRequests]
              ELSE IF ~ (s < e)
                THEN /\ pc' = [pc EXCEPT ![p] = "done"]
                     /\ result' = [result EXCEPT ![p] = BodyValidationFailed]
                ELSE IF InvalidDates(s, e)
                  THEN /\ pc' = [pc EXCEPT ![p] = "done"]
                       /\ result' = [result EXCEPT ![p] = ValidationError]
                  ELSE /\ pc' = [pc EXCEPT ![p] = "verify"]
                       /\ result' = [result EXCEPT ![p] = NoResult]
  /\ start' = [start EXCEPT ![p] = Len(ledger)]
  /\ seen' = [seen EXCEPT ![p] = Len(ledger)]
  /\ solo' = [q \in Procs |-> IF q = p THEN \A o \in Procs \ {p} : pc[o] = "idle"
                              ELSE IF pc[q] = "idle" THEN solo[q] ELSE FALSE]
  /\ UNCHANGED <<strategy, ledger, cache, prior, logged>>

(* Every createBooking is entered through the route.                       *)
NextRoute ==
  \/ \E p \in Procs : Post(p)
  \/ \E p \in Procs : VerifyRoom(p)
  \/ \E p \in Procs : CreateAtomic(p)
  \/ \E p \in Procs : TxFind(p)
  \/ \E p \in Procs : TxCreate(p)
  \/ \E p \in Procs : InvalidateList(p)
  \/ \E p \in Procs : InvalidateRoom(p)
  \/ \E p \in Procs : Return(p)
  \/ \E id \in RoomIds : GetRoomById(id)

SpecRoute == Init /\ [][NextRoute]_vars

(* ------------------ the repository methods run alone ------------------ *)
(* What one call of a repository method returns and leaves in the          *)
(* collection L when nothing else runs during it: the set of the possible  *)
(* pairs (findOneAndUpdate may return any of the documents that match).    *)
Returned(what, L) == [returns |-> what, ledger |-> L]

createAtomic(L, userId, roomId, startDate, endDate) ==
  LET M == NorFilter(L, roomId, startDate, endDate) IN
    IF M /= {}
      THEN {Returned(L[i], L) : i \in M}
      ELSE IF DuplicateKey(L, roomId, startDate, endDate)
        THEN {Returned("null", L)}
        ELSE {Returned(NewBooking(userId, roomId, startDate, endDate),
                       Append(L, NewBooking(userId, roomId, startDate, endDate)))}

createBooking(L, userId, roomId, startDate, endDate) ==
  IF findOverlapping(L, roomId, startDate, endDate) /= {}
    THEN {Returned("null", L)}
    ELSE IF DuplicateKey(L, roomId, startDate, endDate)
      THEN {Returned("throws", L)}
      ELSE {Returned(NewBooking(userId, roomId, startDate, endDate),
                     Append(L, NewBooking(userId, roomId, startDate, endDate)))}

(* ====================== properties of the design ======================= *)
(* overlaps(a, b) of the design: half-open intervals [start, end).         *)
overlaps(a, b) == a.start < b.end /\ b.start < a.end

Interval(b) == [start |-> b.startDate, end |-> b.endDate]

Prefix(n) == SubSeq(ledger, 1, n)

(* CONFIRMED bookings of the room of request r, at positions I of ledger   *)
(* L, that overlap r's interval.                                           *)
Blocking(L, r) ==
  {i \in 1..Len(L) : /\ L[i].roomId = r.roomId
                     /\ L[i].status = "CONFIRMED"
                     /\ overlaps(Interval(r), Interval(L[i]))}

PairwiseNonOverlapping(L) ==
  \A i, j \in 1..Len(L) :
    (i /= j /\ L[i].roomId = L[j].roomId
     /\ L[i].status = "CONFIRMED" /\ L[j].status = "CONFIRMED")
      => ~ overlaps(Interval(L[i]), Interval(L[j]))

(* A finished call with a well-formed request for an existing room.        *)
Admitted(p) ==
  /\ pc[p] = "done"
  /\ req[p].startDate < req[p].endDate
  /\ req[p].roomId \in Rooms

(* The positions the calls of S wrote. *)
WrittenBy(S) == {result[p].wrote : p \in S} \ {0}

(* No booking other than those the calls of S wrote blocks a call of S.    *)
Unblocked(S) ==
  \A p \in S : Blocking(ledger, req[p]) \subseteq WrittenBy(S)

(* p returned a booking that p's call created from p's request.            *)
CreatedOwn(p) ==
  /\ result[p].status = 201
  /\ result[p].wrote /= 0
  /\ result[p].booking = result[p].wrote
  /\ result[p].wrote \in 1..Len(ledger)
  /\ ledger[result[p].wrote] =
       NewBooking(req[p].userId, req[p].roomId, req[p].startDate, req[p].endDate)

(* C1: under the transactional strategy (BookingRepository.createBooking), *)
(* in every reachable ledger state the CONFIRMED bookings of each room are *)
(* pairwise non-overlapping, whatever the interleaving of the calls; no    *)
(* conflicting insert of another transaction lands between a              *)
(* transaction's read and its commit.                                      *)
C1_TransactionNoOverlap ==
  strategy = "transaction" => PairwiseNonOverlapping(ledger)

(* C2: under the conditional-upsert strategy (createAtomic), after any     *)
(* sequence or interleaving of calls with start < end the CONFIRMED        *)
(* bookings of each room are pairwise non-overlapping.                     *)
C2_AtomicNoOverlap ==
  strategy = "atomic" => PairwiseNonOverlapping(ledger)

(* Calls of S that contend for one room: all finished, same existing room, *)
(* well-formed and pairwise overlapping intervals, each started from a     *)
(* ledger holding no booking that overlaps any of them, and no booking of  *)
(* a call outside S in their way.                                          *)
Contenders(S) ==
  /\ Cardinality(S) >= 2
  /\ \A p \in S : Admitted(p)
  /\ \A p, q \in S : /\ req[p].roomId = req[q].roomId
                     /\ overlaps(Interval(req[p]), Interval(req[q]))
                     /\ Blocking(Prefix(start[p]), req[q]) = {}
  /\ Unblocked(S)

(* C3: of N >= 2 concurrent calls for the same room with pairwise          *)
(* overlapping intervals, exactly one returns the created booking, every   *)
(* other one returns Conflict (409), and the ledger gains exactly one      *)
(* CONFIRMED booking.                                                      *)
C3_MutualExclusion ==
  \A S \in SUBSET Procs :
    Contenders(S) =>
      /\ Cardinality({p \in S : result[p].status = 201}) = 1
      /\ \A p \in S : result[p].status \in {201, 409}
      /\ \A p \in S : result[p].status = 201 => CreatedOwn(p)
      /\ Cardinality(WrittenBy(S)) = 1

(* Calls of S for one room whose intervals are pairwise disjoint and       *)
(* blocked by no existing booking.                                         *)
Independent(S) ==
  /\ S /= {}
  /\ \A p \in S : Admitted(p)
  /\ \A p, q \in S : /\ req[p].roomId = req[q].roomId
                     /\ (p /= q => ~ overlaps(Interval(req[p]), Interval(req[q])))
  /\ Unblocked(S)

(* C4: N calls for the same room with pairwise non-overlapping intervals   *)
(* that overlap no existing CONFIRMED booking all succeed, and the ledger  *)
(* holds N new CONFIRMED bookings, one per request.                        *)
C4_Independence ==
  \A S \in SUBSET Procs :
    Independent(S) =>
      /\ \A p \in S : CreatedOwn(p)
      /\ Cardinality(WrittenBy(S)) = Cardinality(S)

(* C5: the outcome of a call for room R depends only on the bookings of R. *)
(* A Conflict is answered only when a booking of R itself overlaps the     *)
(* request; while R holds no other booking the call inserts its record,    *)
(* whatever other rooms hold and whatever runs for them; and the booking   *)
(* returned is one of R.                                                   *)
C5_RoomIsolation ==
  \A p \in Procs :
    Admitted(p) =>
      LET r == req[p]
          others == {i \in 1..Len(ledger) :
                       ledger[i].roomId = r.roomId /\ i /= result[p].wrote}
      IN  /\ result[p].status = 409 =>
               \E i \in others : overlaps(Interval(r), Interval(ledger[i]))
          /\ others = {} => CreatedOwn(p)
          /\ result[p].status = 201 => ledger[result[p].booking].roomId = r.roomId

(* A call for one room created its booking although another room already   *)
(* held a booking over the same interval.                                  *)
C5_Witness ==
  \E p \in Procs :
    /\ Admitted(p)
    /\ CreatedOwn(p)
    /\ \E i \in 1..Len(ledger) :
         /\ i < result[p].wrote
         /\ ledger[i].roomId /= req[p].roomId
         /\ overlaps(Interval(req[p]), Interval(ledger[i]))

(* C6: with a CONFIRMED booking [T1, T2) in the ledger, a call for the     *)
(* same room and [T2, T3) is no conflict: it succeeds and a new CONFIRMED  *)
(* booking [T2, T3) is recorded; likewise for a request ending at T1.      *)
C6_HalfOpenBoundary ==
  \A p \in Procs :
    ( /\ Admitted(p)
      /\ \E i \in 1..start[p] :
           /\ ledger[i].roomId = req[p].roomId
           /\ ledger[i].status = "CONFIRMED"
           /\ \/ ledger[i].endDate = req[p].startDate
              \/ ledger[i].startDate = req[p].endDate
      /\ Unblocked({p}) )
    => CreatedOwn(p)

Request(u, r, s, e) == [userId |-> u, roomId |-> r, startDate |-> s, endDate |-> e]

(* C7: for every ledger state, room and interval [s, e), findOverlapping   *)
(* returns exactly the CONFIRMED bookings b of the room with               *)
(* overlaps([s, e), b); the test is symmetric; and the availability check  *)
(* and the admission check decide by that same test.                       *)
C7_OverlapPredicate ==
  /\ \A r \in RoomIds, s \in Times, e \in Times :
       findOverlapping(ledger, r, s, e) = Blocking(ledger, Request(0, r, s, e))
  /\ \A s1 \in Times, e1 \in Times, s2 \in Times, e2 \in Times :
       overlaps([start |-> s1, end |-> e1], [start |-> s2, end |-> e2])
         = overlaps([start |-> s2, end |-> e2], [start |-> s1, end |-> e1])
  /\ \A r \in Rooms, s \in Times, e \in Times :
       s < e => ( checkAvailability(ledger, r, s, e).is_available
                    <=> Blocking(ledger, Request(0, r, s, e)) = {} )
  /\ \A p \in Procs :
       /\ pc[p] = "txCreate" => Blocking(Prefix(seen[p]), req[p]) = {}
       /\ (strategy = "transaction" /\ pc[p] = "done" /\ result[p].status = 409)
            => Blocking(Prefix(seen[p]), req[p]) /= {}
       /\ (strategy = "atomic" /\ result[p].status = 201 /\ result[p].wrote = 0)
            => ~ overlaps(Interval(req[p]), Interval(ledger[result[p].booking]))

(* A booking is found for an interval that reaches into it and is not      *)
(* found for the interval that starts where it ends, and a call has been   *)
(* refused because of it.                                                  *)
C7_Witness ==
  \E p \in Procs, i \in 1..Len(ledger), e \in Times :
    /\ pc[p] = "done" /\ result[p].status = 409
    /\ i \in Blocking(Prefix(seen[p]), req[p])
    /\ ledger[i].endDate < e
    /\ i \in findOverlapping(ledger, ledger[i].roomId, ledger[i].startDate, e)
    /\ i \notin findOverlapping(ledger, ledger[i].roomId, ledger[i].endDate, e)

(* C8: a call that runs alone while the ledger already holds a CONFIRMED   *)
(* booking of the room overlapping the request fails with 409 'Room        *)
(* already booked for selected dates' and creates no record.               *)
C8_ConflictOnOverlap ==
  \A p \in Procs :
    ( /\ Admitted(p)
      /\ solo[p]
      /\ Blocking(Prefix(start[p]), req[p]) /= {} )
    => /\ result[p] = Conflict
       /\ Len(ledger) = start[p]

C10_UnknownRoom ==
  [][ \A p \in Procs :
        ( /\ pc'[p] /= pc[p] /\ pc'[p] /= "idle"
          /\ req'[p].startDate < req'[p].endDate
          /\ req'[p].roomId \notin Rooms )
        => /\ pc'[p] \in {"verify", "done"}
           /\ pc'[p] = "done" => /\ result'[p].status = 404
                                 /\ result'[p].message = "Room not found"
                                 /\ result'[p].wrote = 0
           /\ ledger' = ledger
           /\ cache' = cache ]_vars

(* A call for an unknown room was refused with 404 while the ledger held a *)
(* booking and the cache held entries.                                     *)
C10_Witness ==
  \E p \in Procs :
    /\ pc[p] = "done"
    /\ req[p].startDate < req[p].endDate
    /\ req[p].roomId \notin Rooms
    /\ result[p].status = 404
    /\ ledger /= <<>>
    /\ RoomKey(ledger[1].roomId) \in cache
    /\ KeyAll \in cache

(* The records of the ledger with the triple of request r. *)
SameTriple(L, r) ==
  {i \in 1..Len(L) : /\ L[i].roomId = r.roomId
                     /\ L[i].startDate = r.startDate
                     /\ L[i].endDate = r.endDate}

(* C11: every call that returns success has performed exactly one insert   *)
(* into the ledger, and every call that ends in another outcome (409, 400, *)
(* 404, store error) has performed none.                                   *)
C11_WriteAccounting ==
  \A p \in Procs :
    pc[p] = "done" =>
      /\ result[p].status = 201 =>
           /\ result[p].wrote \in (start[p] + 1)..Len(ledger)
           /\ Len(ledger) >= start[p] + 1
      /\ result[p].status /= 201 => result[p].wrote = 0

(* C12: the booking a successful call returns is a record that call        *)
(* created, carrying the request's userId, roomId, startDate and endDate,  *)
(* status CONFIRMED and version 1; never a record that was there before    *)
(* the call or that is of another user or interval.                        *)
C12_SuccessPostcondition ==
  \A p \in Procs :
    result[p].status = 201 =>
      /\ result[p].booking \in 1..Len(ledger)
      /\ result[p].booking > start[p]
      /\ ledger[result[p].booking] =
           [userId |-> req[p].userId, roomId |-> req[p].roomId,
            startDate |-> req[p].startDate, endDate |-> req[p].endDate,
            status |-> "CONFIRMED", version |-> 1]

(* C13: when a call has succeeded and the same (roomId, startDate,         *)
(* endDate) is submitted again after it, the second call returns 409,      *)
(* whatever else the room holds and under either strategy, and the ledger  *)
(* holds exactly one record with that triple.                              *)
C13_DuplicateGuard ==
  \A p \in Procs :
    (pc[p] = "done" /\ prior[p].status = 201) =>
      /\ result[p].status = 409
      /\ Cardinality(SameTriple(ledger, req[p])) = 1

(* C14: no two records of the ledger share (roomId, startDate, endDate),   *)
(* and an insert the unique index rejects leaves the ledger as it was:     *)
(* the rejected call has written nothing and the triple was already there. *)
C14_StructuralBackstop ==
  /\ \A i, j \in 1..Len(ledger) :
       i /= j => \/ ledger[i].roomId /= ledger[j].roomId
                 \/ ledger[i].startDate /= ledger[j].startDate
                 \/ ledger[i].endDate /= ledger[j].endDate
  /\ \A p \in Procs :
       (strategy = "atomic" /\ pc[p] = "done" /\ result[p].status = 409) =>
         /\ result[p].wrote = 0
         /\ SameTriple(Prefix(seen[p]), req[p]) /= {}

(* The upsert of a triple the ledger already holds was rejected by the     *)
(* index, and the ledger still holds that triple once.                     *)
C14_Witness ==
  \E p \in Procs :
    /\ strategy = "atomic"
    /\ pc[p] = "done"
    /\ result[p].status = 409
    /\ Len(ledger) = seen[p]
    /\ Cardinality(SameTriple(ledger, req[p])) = 1

(* C15: when the store call of an admission fails after the insert may or  *)
(* may not have been applied, the caller gets an outcome that is neither   *)
(* 409 nor success; in particular a call whose insert is in the ledger is  *)
(* never answered with 409.                                                *)
C15_Indeterminate ==
  \A p \in Procs :
    (pc[p] = "done" /\ result[p].wrote /= 0 /\ result[p].status /= 201) =>
      /\ result[p].status /= 409
      /\ result[p].status = 500

(* C16: a 409 is answered only when a conflicting booking is in the        *)
(* ledger: another record of the room that overlaps the request or has its *)
(* triple; a store that is unreachable or rejects the write for another    *)
(* reason gives a 500.                                                     *)
C16_StoreFailureNotConflict ==
  \A p \in Procs :
    (pc[p] = "done" /\ result[p].status = 409) =>
      \E i \in 1..Len(ledger) :
        /\ i /= result[p].wrote
        /\ ledger[i].roomId = req[p].roomId
        /\ \/ overlaps(Interval(req[p]), Interval(ledger[i]))
           \/ i \in SameTriple(ledger, req[p])

(* C17: for every ledger state and every request with start < end for an   *)
(* existing room, run with no concurrent admission, createAtomic and the   *)
(* transactional createBooking return the same thing (a new booking or     *)
(* null) and leave the same ledger.                                        *)
C17_StrategyEquivalence ==
  \A u \in Users, r \in Rooms, s \in Times, e \in Times :
    s < e => createAtomic(ledger, u, r, s, e) = createBooking(ledger, u, r, s, e)

(* C18: when a call for room R returns success and no cache call failed,   *)
(* the room-list entries ('rooms:all' and every 'rooms:all:<limit>:        *)
(* <offset>') are gone once the first cache call has run, and 'room:R' is  *)
(* gone once the second has run.                                           *)
C18_CacheExpiry ==
  [][ \A p \in Procs :
        /\ (pc[p] = "invList" /\ pc'[p] = "invRoom") =>
             \A l \in Limits, o \in Offsets : ListKey(l, o) \notin cache'
        /\ (pc[p] = "invRoom" /\ pc'[p] = "done" /\ ~ logged'[p]) =>
             /\ result'[p].status = 201
             /\ RoomKey(req[p].roomId) \notin cache' ]_vars

(* C19: when a cache call of invalidateRoomCache throws, the call has      *)
(* still ended, with the success it had: the booking it returns is in the  *)
(* ledger, and the record it inserted is there unchanged.                  *)
C19_BestEffortInvalidation ==
  \A p \in Procs :
    logged[p] =>
      /\ pc[p] = "done"
      /\ result[p].status = 201
      /\ result[p].booking \in 1..Len(ledger)
      /\ result[p].wrote /= 0 => CreatedOwn(p)

(* The cache failed after a call had inserted its booking: the call ended  *)
(* with 201 and the stale entry of the room is still cached.               *)
C19_Witness ==
  \E p \in Procs :
    /\ logged[p]
    /\ CreatedOwn(p)
    /\ RoomKey(req[p].roomId) \in cache

AvailabilityChecked(p) ==
  pc[p] = "done" /\ "via" \in DOMAIN result[p]

(* C21: RoomService.checkAvailability with start < end and an existing     *)
(* room answers is_available = TRUE iff the ledger, as it is when the      *)
(* answer is given, holds no CONFIRMED booking of the room overlapping     *)
(* [start, end); no step of the check changes the cache or the ledger,     *)
(* and the answer is the same whatever the cache holds.                    *)
C21_AvailabilityReadsLedger ==
  [][ \A p \in Procs :
        /\ (pc[p] = "rsFind" /\ pc'[p] /= pc[p]) =>
             /\ pc'[p] = "done"
             /\ result'[p].status = 200
             /\ result'[p].is_available <=> Blocking(ledger', req[p]) = {}
        /\ pc'[p] = "rsFind" =>
             /\ req'[p].startDate < req'[p].endDate
             /\ req'[p].roomId \in Rooms
        /\ (pc'[p] /= pc[p] /\ (pc[p] \in {"rsVerify", "rsFind"}
                                \/ pc'[p] \in {"rsVerify", "rsFind"})) =>
             /\ cache' = cache
             /\ ledger' = ledger ]_vars

(* A check that began before a booking was admitted answered unavailable   *)
(* because of that booking, while the room's entry was cached.             *)
C21_Witness ==
  \E p \in Procs :
    /\ AvailabilityChecked(p)
    /\ result[p].via = "RoomService"
    /\ result[p].status = 200
    /\ ~ result[p].is_available
    /\ Blocking(Prefix(start[p]), req[p]) = {}
    /\ Blocking(ledger, req[p]) /= {}
    /\ RoomKey(req[p].roomId) \in cache

(* C22: every availability check, of RoomService or of BookingService,     *)
(* fails with 400 when start >= end and with 404 when the roomId names no  *)
(* room; it gives no answer for an unknown room and writes nothing.        *)
C22_AvailabilityErrors ==
  \A p \in Procs :
    AvailabilityChecked(p) =>
      /\ req[p].startDate >= req[p].endDate => result[p].status = 400
      /\ (req[p].startDate < req[p].endDate /\ req[p].roomId \notin Rooms) =>
           result[p].status = 404
      /\ result[p].status = 200 => req[p].roomId \in Rooms
      /\ result[p].wrote = 0

(* The records of the room of request r in ledger L that are CANCELLED and *)
(* overlap r's interval.                                                   *)
CancelledOverlapping(L, r) ==
  {i \in 1..Len(L) : /\ L[i].roomId = r.roomId
                     /\ L[i].status = "CANCELLED"
                     /\ overlaps(Interval(r), Interval(L[i]))}

C24_ConflictStable ==
  \A p \in Procs :
    (pc[p] = "done" /\ prior[p].status = 409) =>
      /\ result[p].status /= 201
      /\ result[p].status /= 500 => result[p].status = 409

PastChecks(p) ==
  pc[p] \in {"createAtomic", "txFind", "txCreate", "invList", "invRoom"}

C27_FailureAtomicity ==
  \A p \in Procs :
    (strategy = "transaction" /\ pc[p] = "done") =>
      /\ result[p].status = 409 => Blocking(Prefix(seen[p]), req[p]) /= {}
      /\ result[p].status /= 201 => result[p].wrote = 0
      /\ result[p].status = 201 => CreatedOwn(p)
      /\ ~ SessionOpen(p)

(* C28: with no concurrent admission, createBooking for an existing room   *)
(* and start < end creates a booking iff checkAvailability on the same     *)
(* ledger state answers is_available = TRUE, and returns 409 iff it        *)
(* answers FALSE.                                                          *)
C28_CheckCommitAgreement ==
  \A p \in Procs :
    (Admitted(p) /\ solo[p]) =>
      LET a == checkAvailability(Prefix(start[p]), req[p].roomId,
                                 req[p].startDate, req[p].endDate)
      IN  /\ CreatedOwn(p) <=> a.is_available
          /\ result[p].status = 409 <=> ~ a.is_available

====
